---- MODULE Spec2Model ----
(***************************************************************************)
(* The playground session machine of openapi-zod-client                    *)
(* (playground/src/routes/Playground.machine.ts): an xstate v4 machine     *)
(* with predictableActionArguments, so the actions of one transition run   *)
(* in the listed order, each on the context left by the previous one, and  *)
(* an exception in a guard or an action aborts the whole transition: the   *)
(* interpreter keeps its previous state and send() raises.                 *)
(*                                                                         *)
(* Strings are modelled by what the code asks of them.  A tab NAME is the  *)
(* sequence of its "."-separated segments ("api.doc.yaml" is               *)
(* <<"api","doc","yaml">>, "" is <<"">>, ".prettierrc.json" is             *)
(* <<"","prettierrc","json">>), so endsWith(".x"), startsWith(".prettier") *)
(* and name + ".ts" are computed.  A tab CONTENT is a sequence of tokens   *)
(* ("" is <<>>); "{" ... "}" is a JSON object, the token "[" is an         *)
(* unclosed YAML flow sequence, " " is white space, "$shared" declares a   *)
(* schema common to several groups and a group-name token declares an      *)
(* endpoint group.  Indices are the 0-based indices of the code.           *)
(***************************************************************************)
EXTENDS Integers, Sequences, FiniteSets, TLC

VARIABLES
    state,        \* the machine's state value (leaf state)
    ctx,          \* PlaygroundContext
    invoked,      \* the getPresetTemplates promise of Playing is pending
    loaderCalls,  \* number of calls of presets.getTemplates so far
    lastEvent,    \* the event most recently sent to the interpreter
    raised        \* that event's transition threw (and was dropped)

vars == <<state, ctx, invoked, loaderCalls, lastEvent, raised>>

----------------------------------------------------------------------------
(* Bounds *)

MaxTabs == 3          \* longest inputList explored
MaxFormKey == 1       \* largest optionsFormKey explored
MaxLoaderCalls == 2   \* most calls of presets.getTemplates in a session
RenameLoaderCalls == 3   \* the same, in a session of SpecRename

----------------------------------------------------------------------------
(* Names *)

EmptyStr == <<"">>
ApiDocYaml == <<"api", "doc", "yaml">>
TemplateHbs == <<"template", "hbs">>
PrettierrcJson == <<"", "prettierrc", "json">>
OtherJson == <<"other", "json">>
ExtraHbs == <<"extra", "hbs">>
NotesTxt == <<"notes", "txt">>
OtherYaml == <<"other", "yaml">>
GhostYaml == <<"ghost", "yaml">>
PrettierJson == <<"", "prettier", "json">>          \* ".prettier.json"

initialOuputTab == <<"api", "client", "ts">>

Last(s) == s[Len(s)]

\* name.endsWith("." + ext)
endsWith(name, ext) == Len(name) >= 2 /\ Last(name) = ext

\* name.startsWith(".prettier")
startsWithPrettier(name) ==
    Len(name) >= 2 /\ name[1] = "" /\ name[2] \in {"prettier", "prettierrc"}

isValidPrettierConfig(name) == startsWithPrettier(name) /\ endsWith(name, "json")

isValidDocumentName(name) ==
    ~isValidPrettierConfig(name)
    /\ (endsWith(name, "yml") \/ endsWith(name, "yaml") \/ endsWith(name, "json"))

isValidTemplateName(name) == endsWith(name, "hbs")

----------------------------------------------------------------------------
(* Tabs and array helpers (pastable) *)

NoPreset == EmptyStr

Tab(n, c, i, p) == [name |-> n, content |-> c, index |-> i, preset |-> p]

\* what reading a hole of a sparse array, or past the end, gives: undefined
undefined == [name |-> <<"undefined">>, content |-> <<>>, index |-> -1, preset |-> NoPreset]

Min(a, b) == IF a < b THEN a ELSE b
Max(a, b) == IF a > b THEN a ELSE b

\* list[i] of the code (0-based)
At(list, i) == IF i >= 0 /\ i < Len(list) THEN list[i + 1] ELSE undefined

limit(nb, lo, hi) == Min(Max(nb, lo), hi)

removeAtIndex(list, index) ==
    IF index < 0 \/ index >= Len(list) THEN list
    ELSE SubSeq(list, 1, index) \o SubSeq(list, index + 2, Len(list))

\* copy[index] = update; writing past the end leaves holes
updateAtIndex(list, index, update) ==
    [k \in 1..Max(Len(list), index + 1) |->
        IF k = index + 1 THEN update
        ELSE IF k <= Len(list) THEN list[k] ELSE undefined]

\* findIndex((tab) => tab.name === name); -1 when absent
findIndexByName(list, name) ==
    IF \E k \in 1..Len(list) : list[k].name = name
    THEN (CHOOSE k \in 1..Len(list) :
            list[k].name = name /\ \A j \in 1..(k - 1) : list[j].name # name) - 1
    ELSE -1

\* findIndex over a role predicate: 1 document, 2 template, 3 prettier config
isValidName(role, name) ==
    CASE role = 1 -> isValidDocumentName(name)
      [] role = 2 -> isValidTemplateName(name)
      [] OTHER -> isValidPrettierConfig(name)

findIndexByRole(list, role) ==
    IF \E k \in 1..Len(list) : isValidName(role, list[k].name)
    THEN (CHOOSE k \in 1..Len(list) :
            isValidName(role, list[k].name)
            /\ \A j \in 1..(k - 1) : ~isValidName(role, list[j].name)) - 1
    ELSE -1

\* a callback reading tab.name meets a hole before it finds its tab: TypeError
holeBefore(list, found) ==
    \E k \in 1..Len(list) : list[k] = undefined /\ (found = -1 \/ k - 1 < found)

----------------------------------------------------------------------------
(* Contents, the parsers and the structured-model builder *)

EmptyContent == <<>>
DefaultInput == <<"pet", "store">>                 \* presets.defaultInput (YAML)
DefaultTemplate == <<"{{", "template-default", "}}">>   \* presets.defaultTemplate
DefaultPrettierConfig == <<"{", "}">>              \* JSON.stringify(presets.defaultPrettierConfig)
IndexDoc == <<"{", "store", "index", "1", "$shared", "}">>   \* a JSON document
BadJson == <<"{", "pet">>
BadYaml == <<"pet", "[">>

GroupNames == {"pet", "store", "index", "common", "1", "2"}

\* input.startsWith("{")
startsWithBrace(input) == Len(input) > 0 /\ input[1] = "{"

\* safeJSONParse(input) gives null for these
jsonInvalid(input) ==
    ~(/\ Len(input) >= 2
      /\ input[1] = "{"
      /\ Last(input) = "}"
      /\ \A k \in 2..(Len(input) - 1) : input[k] \notin {"{", "}", "["})

\* parse(input) of yaml throws a YAMLParseError for these
yamlThrows(input) == \E k \in 1..Len(input) : input[k] = "["

\* parse(input) of yaml gives null for a document of white space only
yamlNull(input) == \A k \in 1..Len(input) : input[k] = " "

isGroupName(t) == t \in GroupNames

RECURSIVE distinct(_)
\* the keys of an object in the order they were first set
distinct(s) ==
    IF s = <<>> THEN <<>>
    ELSE LET rest == distinct(SubSeq(s, 1, Len(s) - 1))
         IN IF \E k \in 1..Len(rest) : rest[k] = Last(s) THEN rest ELSE Append(rest, Last(s))

\* the parsed document, as far as the model builder reads it
openApiDocOf(input) ==
    [groups |-> distinct(SelectSeq(input, isGroupName)),
     shared |-> \E k \in 1..Len(input) : input[k] = "$shared"]

\* keys that are canonical array indices, in ascending numeric order
ArrayIndexKeys == <<"1", "2">>
isArrayIndex(k) == \E i \in 1..Len(ArrayIndexKeys) : ArrayIndexKeys[i] = k

\* OrdinaryOwnPropertyKeys: array indices ascending, then strings as inserted
ownKeys(inserted) ==
    LET has(k) == \E i \in 1..Len(inserted) : inserted[i] = k
        notIndex(k) == ~isArrayIndex(k)
    IN SelectSeq(ArrayIndexKeys, has) \o SelectSeq(distinct(inserted), notIndex)

----------------------------------------------------------------------------
(* Options, preset templates *)

GroupNone == <<"none">>
GroupTagFile == <<"tag", "file">>

defaultOptionValues == [groupStrategy |-> GroupNone]
groupedOptionValues == [groupStrategy |-> GroupTagFile]
OptionsFormValues == {defaultOptionValues, groupedOptionValues}

\* options.groupStrategy.includes("file")
includesFile(groupStrategy) == \E k \in 1..Len(groupStrategy) : groupStrategy[k] = "file"

\* { ...a, ...b }
merge(a, b) == [k \in DOMAIN a \cup DOMAIN b |-> IF k \in DOMAIN b THEN b[k] ELSE a[k]]

PresetDefault == <<"default">>
PresetGrouped == <<"grouped">>

\* value, template id, optional options (a sequence of zero or one record)
presetTemplateList ==
    << [value |-> PresetDefault, template |-> "template-default", options |-> <<>>],
       [value |-> PresetGrouped, template |-> "template-grouped",
        options |-> <<groupedOptionValues>>] >>

TemplateIds ==
    {"template-default", "template-grouped", "template-grouped-index", "template-grouped-common"}

\* what presets.getTemplates() resolves to
LoadedTemplates == [id \in TemplateIds |-> <<"{{", id, "}}">>]
NoTemplates == [id \in {} |-> <<>>]

\* presetTemplateList.find((preset) => preset.value === name)?.template ?? ""
presetTemplateIdOf(name) ==
    IF \E k \in 1..Len(presetTemplateList) : presetTemplateList[k].value = name
    THEN presetTemplateList[CHOOSE k \in 1..Len(presetTemplateList) :
                                presetTemplateList[k].value = name].template
    ELSE ""

----------------------------------------------------------------------------
(* Events.  Every event carries every field; the fields its type does not   *)
(* have hold a default.                                                     *)

NoTab == Tab(EmptyStr, EmptyContent, -1, NoPreset)

Event(type, name, tab, value, options, template) ==
    [type |-> type, name |-> name, tab |-> tab, value |-> value,
     options |-> options, template |-> template]

TabEvent(type, tab) == Event(type, "", tab, EmptyContent, defaultOptionValues, 1)
PlainEvent(type) == TabEvent(type, NoTab)

----------------------------------------------------------------------------
(* Results of an action: the context it returns, or an exception *)

Ok(c) == [ctx |-> c, thrown |-> FALSE]
Throw(c) == [ctx |-> c, thrown |-> TRUE]

\* the next action of a transition's action list
Then(r, action(_, _), event) == IF r.thrown THEN r ELSE action(r.ctx, event)

----------------------------------------------------------------------------
(* The template engine and the formatter, as free constructors: a rendered  *)
(* text is the tuple of what it was rendered from.                          *)

\* safeJSONParse(content ?? "{}") of the selected prettier config
prettierConfigOf(c) ==
    LET found == findIndexByName(c.inputList, c.selectedPrettierConfig)
        content == IF found = -1 THEN <<"{", "}">> ELSE At(c.inputList, found).content
    IN IF jsonInvalid(content) THEN <<"null">> ELSE content

\* maybePretty(template(context), prettierConfig)
rendered(kind, templateString, doc, options, prettierConfig) ==
    <<kind, templateString, doc, options, prettierConfig>>

----------------------------------------------------------------------------
(* Actions *)

assignEditorRef(c, event) ==
    Ok(IF event.name = "input"
       THEN [c EXCEPT !.inputEditor = "editor"]
       ELSE [c EXCEPT !.outputEditor = "editor", !.monaco = "monaco"])

\* a plain action: ctx.inputEditor.setValue(ctx.inputList[ctx.activeInputIndex].content)
updateInputEditorValue(c, event) ==
    IF c.inputEditor # "null" /\ At(c.inputList, c.activeInputIndex) = undefined
    THEN Throw(c)
    ELSE Ok(c)

updateInput(c, event) ==
    LET activeIndex == c.activeInputIndex
    IN Ok([c EXCEPT !.inputList =
              updateAtIndex(c.inputList, activeIndex,
                            [At(c.inputList, activeIndex) EXCEPT !.content = event.value])])

updateOutput(c, event) ==
    LET documentIndex == findIndexByName(c.inputList, c.selectedOpenApiFileName)
        selected == IF documentIndex = -1 THEN EmptyContent
                    ELSE At(c.inputList, documentIndex).content
        input == IF event.type = "Submit file modal" THEN event.tab.content ELSE selected
        openApiDoc == openApiDocOf(input)
        options == c.options
        templateContext == <<[doc |-> openApiDoc, options |-> options]>>
        templateIndex == findIndexByName(c.inputList, c.selectedTemplateName)
        presetId == presetTemplateIdOf(c.selectedTemplateName)
        templateString ==
            IF presetId \in DOMAIN c.presetTemplates THEN c.presetTemplates[presetId]
            ELSE IF templateIndex # -1 THEN At(c.inputList, templateIndex).content
            ELSE EmptyContent
        prettierIndex == findIndexByName(c.inputList, c.selectedPrettierConfig)
        prettierConfig == prettierConfigOf(c)
        \* the grouped branch
        groupKeys == ownKeys(openApiDoc.groups)
        inserted == <<"index">> \o (IF openApiDoc.shared THEN <<"common">> ELSE <<>>) \o groupKeys
        isGroup(key) == \E k \in 1..Len(groupKeys) : groupKeys[k] = key
        outputOf(key) ==
            IF isGroup(key)
            THEN rendered("group", templateString,
                          [groups |-> <<key>>, shared |-> openApiDoc.shared],
                          merge(options, [groupStrategy |-> GroupNone]), prettierConfig)
            ELSE IF key = "common"
            THEN rendered("common", c.presetTemplates["template-grouped-common"],
                          [groups |-> <<>>, shared |-> TRUE], options, prettierConfig)
            ELSE rendered("index", c.presetTemplates["template-grouped-index"],
                          [groups |-> groupKeys, shared |-> FALSE], options, prettierConfig)
        entries == ownKeys(inserted)
        outputList == [k \in 1..Len(entries) |->
                          Tab(<<entries[k], "ts">>, outputOf(entries[k]), k - 1, NoPreset)]
        prettyOutput == rendered("single", templateString, openApiDoc, options, prettierConfig)
    IN IF holeBefore(c.inputList, documentIndex) THEN Throw(c)
       ELSE IF input = EmptyContent THEN Ok(c)
       ELSE IF ~startsWithBrace(input) /\ yamlThrows(input) THEN Throw(c)
       ELSE IF IF startsWithBrace(input) THEN jsonInvalid(input) ELSE yamlNull(input) THEN Ok(c)
       ELSE IF holeBefore(c.inputList, templateIndex) THEN Throw(c)
       ELSE IF templateString = EmptyContent THEN Ok(c)
       ELSE IF holeBefore(c.inputList, prettierIndex) THEN Throw(c)
       ELSE IF includesFile(options.groupStrategy)
       THEN \* hbs.compile(undefined) throws
            IF "template-grouped-index" \notin DOMAIN c.presetTemplates
               \/ "template-grouped-common" \notin DOMAIN c.presetTemplates
            THEN Throw(c)
            ELSE Ok([c EXCEPT !.outputList = outputList,
                              !.activeOutputIndex = 0,
                              !.activeOutputTab = outputList[1].name])
       ELSE Ok([c EXCEPT !.templateContext = templateContext,
                         !.outputList = <<Tab(initialOuputTab, prettyOutput, 0, NoPreset)>>])

selectInputTab(c, event) ==
    LET found == findIndexByName(c.inputList, event.tab.name)
    IN IF holeBefore(c.inputList, found) THEN Throw(c)
       ELSE Ok([c EXCEPT !.activeInputTab = event.tab.name, !.activeInputIndex = found])

updateSelectedOpenApiFileName(c, event) ==
    IF event.type = "Remove file"
    THEN LET nextIndex == findIndexByRole(c.inputList, 1)
         IN IF holeBefore(c.inputList, nextIndex) THEN Throw(c)
            ELSE IF nextIndex = -1 THEN Ok(c)
            ELSE Ok([c EXCEPT !.selectedOpenApiFileName = At(c.inputList, nextIndex).name])
    ELSE IF event.tab.content = EmptyContent THEN Ok(c)
    ELSE LET nextIndex == findIndexByName(c.inputList, event.tab.name)
             firstDoc == findIndexByRole(c.inputList, 1)
         IN IF holeBefore(c.inputList, nextIndex) THEN Throw(c)
            ELSE IF nextIndex = -1 THEN Ok(c)
            ELSE IF isValidDocumentName(At(c.inputList, nextIndex).name)
            THEN Ok([c EXCEPT !.selectedOpenApiFileName = event.tab.name])
            ELSE IF holeBefore(c.inputList, firstDoc) THEN Throw(c)
            ELSE Ok([c EXCEPT !.selectedOpenApiFileName =
                        IF firstDoc = -1 THEN EmptyStr ELSE At(c.inputList, firstDoc).name])

updateSelectedTemplateName(c, event) ==
    IF event.type = "Remove file"
    THEN LET nextIndex == findIndexByRole(c.inputList, 2)
         IN IF holeBefore(c.inputList, nextIndex) THEN Throw(c)
            ELSE IF nextIndex = -1 THEN Ok(c)
            ELSE Ok([c EXCEPT !.selectedTemplateName = At(c.inputList, nextIndex).name])
    ELSE IF event.tab.content = EmptyContent THEN Ok(c)
    ELSE LET nextIndex == findIndexByName(c.inputList, event.tab.name)
         IN IF holeBefore(c.inputList, nextIndex) THEN Throw(c)
            ELSE IF nextIndex = -1 THEN Ok(c)
            ELSE IF isValidTemplateName(At(c.inputList, nextIndex).name)
            THEN Ok([c EXCEPT !.selectedTemplateName = event.tab.name])
            ELSE Ok(c)

updateSelectedPrettierConfig(c, event) ==
    IF event.type = "Remove file"
    THEN LET nextIndex == findIndexByRole(c.inputList, 3)
         IN IF holeBefore(c.inputList, nextIndex) THEN Throw(c)
            ELSE IF nextIndex = -1 THEN Ok(c)
            ELSE Ok([c EXCEPT !.selectedPrettierConfig = At(c.inputList, nextIndex).name])
    ELSE IF event.tab.content = EmptyContent THEN Ok(c)
    ELSE LET nextIndex == findIndexByName(c.inputList, event.tab.name)
         IN IF holeBefore(c.inputList, nextIndex) THEN Throw(c)
            ELSE IF nextIndex = -1 THEN Ok(c)
            ELSE IF isValidPrettierConfig(At(c.inputList, nextIndex).name)
            THEN Ok([c EXCEPT !.selectedPrettierConfig = event.tab.name])
            ELSE Ok(c)

updateSelectedDocOrTemplate(c, event) ==
    LET tab == At(c.inputList, c.activeInputIndex)
    IN IF tab = undefined THEN Throw(c)
       ELSE Ok([c EXCEPT
                  !.selectedOpenApiFileName =
                      IF isValidDocumentName(tab.name) THEN tab.name ELSE @,
                  !.selectedTemplateName =
                      IF isValidTemplateName(tab.name) THEN tab.name ELSE @])

selectOutputTab(c, event) ==
    Ok([c EXCEPT !.activeOutputTab = event.tab.name,
                 !.activeOutputIndex = findIndexByName(c.outputList, event.tab.name)])

\* findIndex((tab) => tab.preset && isValidTemplateName(tab.name)), 1-based, 0 when absent
presetTemplateIndexOf(list) ==
    LET is(k) == list[k].preset # NoPreset /\ isValidTemplateName(list[k].name)
    IN IF \E k \in 1..Len(list) : is(k)
       THEN CHOOSE k \in 1..Len(list) : is(k) /\ \A j \in 1..(k - 1) : ~is(j)
       ELSE 0

selectPresetTemplate(c, event) ==
    LET template == presetTemplateList[event.template]
        loaded == template.template \in DOMAIN c.presetTemplates
        content == c.presetTemplates[template.template]
        presetTemplateIndex == presetTemplateIndexOf(c.inputList) - 1
        inputList ==
            IF ~loaded \/ presetTemplateIndex = -1 THEN c.inputList
            ELSE updateAtIndex(c.inputList, presetTemplateIndex,
                               [At(c.inputList, presetTemplateIndex) EXCEPT
                                   !.content = content, !.preset = template.value])
        options == IF template.options = <<>> THEN c.options
                   ELSE merge(c.options, template.options[1])
    IN IF loaded /\ holeBefore(c.inputList, presetTemplateIndex) THEN Throw(c)
       ELSE Ok([c EXCEPT !.selectedTemplateName = template.value,
                         !.inputList = inputList,
                         !.options = options])

initFileForm(c, event) ==
    Ok([c EXCEPT !.fileForm = Tab(EmptyStr, EmptyContent, Len(c.inputList), NoPreset)])

\* a mutation of assignFileToForm: opening the form on a tab also activates it
assignFileToFormSelecting(c, event) ==
    Ok([c EXCEPT !.fileForm = event.tab, !.activeInputTab = event.tab.name])

assignFileToForm(c, event) == Ok([c EXCEPT !.fileForm = event.tab])

removeFile(c, event) ==
    LET index == event.tab.index
        next == removeAtIndex(c.inputList, index)
        isCurrentActive == c.activeInputIndex = index
        nextIndex == limit(index, 0, Len(next) - 1)
    IN IF ~isCurrentActive THEN Ok([c EXCEPT !.inputList = next])
       ELSE IF At(next, nextIndex) = undefined THEN Throw(c)
       ELSE Ok([c EXCEPT !.inputList = next,
                         !.activeInputTab = At(next, nextIndex).name,
                         !.activeInputIndex = nextIndex])

\* the draft edit written through to the committed options
updatePreviewOptionsCommitting(c, event) ==
    Ok([c EXCEPT !.options = event.options, !.previewOptions = event.options])

updatePreviewOptions(c, event) == Ok([c EXCEPT !.previewOptions = event.options])

resetPreviewOptions(c, event) ==
    Ok([c EXCEPT !.previewOptions = defaultOptionValues,
                 !.optionsFormKey = c.optionsFormKey + 1])

updateOptions(c, event) ==
    Ok([c EXCEPT !.options = event.options, !.previewOptions = event.options])

updateEditingFile(c, event) ==
    Ok([c EXCEPT !.inputList = updateAtIndex(c.inputList, c.fileForm.index, event.tab)])

createNewFile(c, event) == Ok([c EXCEPT !.inputList = Append(c.inputList, event.tab)])

\* a plain action on the output editor: no context field changes
resize(c, event) == Ok(c)

----------------------------------------------------------------------------
(* Guards: "true", "false", or "throw" when the guard itself raises *)

willInputAndOutputEditorBothBeReady(c, event) ==
    c.inputEditor # "null" \/ c.outputEditor # "null"

isNextTabAnother(c, event, role, selectedName) ==
    IF event.tab.name = selectedName THEN "false"
    ELSE LET nextIndex == findIndexByName(c.inputList, event.tab.name)
         IN IF holeBefore(c.inputList, nextIndex) \/ nextIndex = -1 THEN "throw"
            ELSE IF isValidName(role, At(c.inputList, nextIndex).name) THEN "true"
            ELSE "false"

isNextTabAnotherOpenApiDoc(c, event) ==
    isNextTabAnother(c, event, 1, c.selectedOpenApiFileName)

isNextTabAnotherTemplate(c, event) ==
    isNextTabAnother(c, event, 2, c.selectedTemplateName)

isNextTabAnotherPrettierConfig(c, event) ==
    isNextTabAnother(c, event, 3, c.selectedPrettierConfig)

\* content.trim() === ""
trimIsEmpty(content) == \A k \in 1..Len(content) : content[k] = " "

wasInputEmpty(c, event) ==
    LET tab == At(c.inputList, c.activeInputIndex)
    IN IF tab = undefined THEN "throw"
       ELSE IF trimIsEmpty(tab.content) /\ event.value # EmptyContent THEN "true"
       ELSE "false"

----------------------------------------------------------------------------
(* The machine *)

initialInputList ==
    << Tab(ApiDocYaml, DefaultInput, 0, <<"petstore", "yaml">>),
       Tab(TemplateHbs, DefaultTemplate, 1, presetTemplateList[1].value),
       Tab(PrettierrcJson, DefaultPrettierConfig, 2, <<"prettier">>) >>

initialContext ==
    [monaco |-> "null",
     inputEditor |-> "null",
     outputEditor |-> "null",
     options |-> defaultOptionValues,
     previewOptions |-> defaultOptionValues,
     optionsFormKey |-> 0,
     templateContext |-> <<>>,
     activeInputTab |-> initialInputList[1].name,
     activeInputIndex |-> 0,
     inputList |-> initialInputList,
     selectedOpenApiFileName |-> initialInputList[1].name,
     selectedTemplateName |-> initialInputList[2].name,
     selectedPrettierConfig |-> initialInputList[3].name,
     presetTemplates |-> NoTemplates,
     activeOutputTab |-> initialOuputTab,
     activeOutputIndex |-> 0,
     outputList |-> <<Tab(initialOuputTab, EmptyContent, 0, NoPreset)>>,
     fileForm |-> Tab(EmptyStr, EmptyContent, -1, NoPreset)]

Init ==
    /\ state = "loading"
    /\ ctx = initialContext
    /\ invoked = FALSE
    /\ loaderCalls = 0
    /\ lastEvent = PlainEvent("xstate.init")
    /\ raised = FALSE

\* One macrostep: the event's transition to target with the result r of its
\* actions.  A raised exception leaves the interpreter where it was.  Playing
\* invokes getPresetTemplates when entered and stops it when left.
Send(event, r, target) ==
    /\ lastEvent' = event
    /\ raised' = r.thrown
    /\ IF r.thrown
       THEN UNCHANGED <<state, ctx, invoked, loaderCalls>>
       ELSE /\ ctx' = r.ctx
            /\ state' = target
            /\ IF target = "Playing" /\ state # "Playing"
               THEN invoked' = TRUE /\ loaderCalls' = loaderCalls + 1
               ELSE IF target # "Playing" /\ state = "Playing"
               THEN invoked' = FALSE /\ UNCHANGED loaderCalls
               ELSE UNCHANGED <<invoked, loaderCalls>>

\* the tabs the tab bar shows
TabsOf(list) == {list[k] : k \in 1..Len(list)} \ {undefined}

\* those of them the user of a session acts on
Named(list, names) == {tab \in TabsOf(list) : tab.name \in names}

(* The transitions: the result of the actions of the transition an event    *)
(* selects in context c.                                                     *)

onEditorLoaded(c, event) ==
    IF willInputAndOutputEditorBothBeReady(c, event)
    THEN Then(assignEditorRef(c, event), updateOutput, event)
    ELSE assignEditorRef(c, event)

onUpdateInput(c, event) ==
    LET guard == wasInputEmpty(c, event)
    IN IF guard = "throw" THEN Throw(c)
       ELSE IF guard = "true"
       THEN Then(Then(updateInput(c, event), updateOutput, event),
                 updateSelectedDocOrTemplate, event)
       ELSE Then(updateInput(c, event), updateOutput, event)

onSelectInputTab(c, event) ==
    LET doc == isNextTabAnotherOpenApiDoc(c, event)
        template == isNextTabAnotherTemplate(c, event)
        prettier == isNextTabAnotherPrettierConfig(c, event)
        selected == selectInputTab(c, event)
    IN IF doc = "throw" THEN Throw(c)
       ELSE IF doc = "true"
       THEN Then(Then(selected, updateSelectedOpenApiFileName, event), updateOutput, event)
       ELSE IF template = "throw" THEN Throw(c)
       ELSE IF template = "true"
       THEN Then(Then(selected, updateSelectedTemplateName, event), updateOutput, event)
       ELSE IF prettier = "throw" THEN Throw(c)
       ELSE IF prettier = "true"
       THEN Then(Then(selected, updateSelectedPrettierConfig, event), updateOutput, event)
       ELSE selected

onSelectPresetTemplate(c, event) ==
    Then(selectPresetTemplate(c, event), updateOutput, event)

onRemoveFile(c, event) ==
    Then(Then(Then(Then(removeFile(c, event),
                        updateSelectedOpenApiFileName, event),
                   updateSelectedTemplateName, event),
              updateSelectedPrettierConfig, event),
         updateOutput, event)

onSaveOptions(c, event) == Then(updateOptions(c, event), updateOutput, event)

\* from Editing file tab (editing) or from Creating file tab
onSubmitFileModal(c, event, editing) ==
    Then(Then(Then(Then(Then(Then(IF editing THEN updateEditingFile(c, event)
                                  ELSE createNewFile(c, event),
                                  selectInputTab, event),
                             updateInputEditorValue, event),
                        updateSelectedOpenApiFileName, event),
                   updateSelectedTemplateName, event),
              updateSelectedPrettierConfig, event),
         updateOutput, event)

(* The events, with the payloads each is sent with *)

EditorLoaded(surfaces) ==
    /\ state = "loading"
    /\ \E name \in surfaces :
        LET event == Event("Editor Loaded", name, NoTab, EmptyContent, defaultOptionValues, 1)
        IN Send(event, onEditorLoaded(ctx, event),
                IF willInputAndOutputEditorBothBeReady(ctx, event) THEN "Playing" ELSE "loading")

UpdateInput(values) ==
    /\ state = "Playing"
    /\ \E value \in values :
        LET event == Event("Update input", "", NoTab, value, defaultOptionValues, 1)
        IN Send(event, onUpdateInput(ctx, event), "Playing")

SelectInputTab(tabs, absent) ==
    /\ state = "Playing"
    /\ \E tab \in Named(ctx.inputList, tabs) \cup absent :
        LET event == TabEvent("Select input tab", tab)
        IN Send(event, onSelectInputTab(ctx, event), "Playing")

SelectOutputTab(absent) ==
    /\ state = "Playing"
    /\ \E tab \in TabsOf(ctx.outputList) \cup absent :
        LET event == TabEvent("Select output tab", tab)
        IN Send(event, selectOutputTab(ctx, event), "Playing")

SelectPresetTemplate(templates) ==
    /\ state = "Playing"
    /\ \E template \in templates :
        LET event == Event("Select preset template", "", NoTab, EmptyContent,
                           defaultOptionValues, template)
        IN Send(event, onSelectPresetTemplate(ctx, event), "Playing")

OpenOptions(calls) ==
    /\ state = "Playing"
    /\ loaderCalls < calls
    /\ Send(PlainEvent("Open options"), Ok(ctx), "Editing options")

OpenMonacoSettings(calls) ==
    /\ state = "Playing"
    /\ loaderCalls < calls
    /\ Send(PlainEvent("Open monaco settings"), Ok(ctx), "Editing monaco settings")

AddFile(calls) ==
    /\ state = "Playing"
    /\ loaderCalls < calls
    /\ Len(ctx.inputList) < MaxTabs
    /\ LET event == PlainEvent("Add file")
       IN Send(event, initFileForm(ctx, event), "Creating file tab")

EditFile(tabs, calls) ==
    /\ state = "Playing"
    /\ loaderCalls < calls
    /\ \E tab \in Named(ctx.inputList, tabs) :
        /\ tab.index < MaxTabs
        /\ LET event == TabEvent("Edit file", tab)
           IN Send(event, assignFileToForm(ctx, event), "Editing file tab")

RemoveFile(tabs) ==
    /\ state = "Playing"
    /\ \E tab \in Named(ctx.inputList, tabs) :
        LET event == TabEvent("Remove file", tab)
        IN Send(event, onRemoveFile(ctx, event), "Playing")

UpdatePreviewOptions(options) ==
    /\ state = "Editing options"
    /\ \E o \in options :
        LET event == Event("Update preview options", "", NoTab, EmptyContent, o, 1)
        IN Send(event, updatePreviewOptions(ctx, event), "Editing options")

ResetPreviewOptions ==
    /\ state = "Editing options"
    /\ ctx.optionsFormKey < MaxFormKey
    /\ LET event == PlainEvent("Reset preview options")
       IN Send(event, resetPreviewOptions(ctx, event), "Editing options")

SaveOptions(options) ==
    /\ state = "Editing options"
    /\ \E o \in options :
        LET event == Event("Save options", "", NoTab, EmptyContent, o, 1)
        IN Send(event, onSaveOptions(ctx, event), "Playing")

CloseOptions ==
    /\ state = "Editing options"
    /\ Send(PlainEvent("Close options"), Ok(ctx), "Playing")

\* Close modal handled by the two file dialogs and not by the settings dialog
CloseModalOfFileDialogs ==
    /\ state \in {"Editing file tab", "Creating file tab"}
    /\ Send(PlainEvent("Close modal"), Ok(ctx), "Playing")

CloseModal ==
    /\ state \in {"Editing monaco settings", "Editing file tab", "Creating file tab"}
    /\ Send(PlainEvent("Close modal"), Ok(ctx), "Playing")

\* the form submits the tab it was opened on, with the name and content typed
SubmitFileModal(names, contents) ==
    /\ state \in {"Editing file tab", "Creating file tab"}
    /\ \E name \in names, content \in contents \cup {ctx.fileForm.content} :
        LET event == TabEvent("Submit file modal",
                              [ctx.fileForm EXCEPT !.name = name, !.content = content])
        IN Send(event, onSubmitFileModal(ctx, event, state = "Editing file tab"), "Playing")

\* onDone of the invoked promise: delivered only while Playing is active
PresetTemplatesDone ==
    /\ state = "Playing"
    /\ invoked
    /\ invoked' = FALSE
    /\ ctx' = [ctx EXCEPT !.presetTemplates = LoadedTemplates]
    /\ lastEvent' = PlainEvent("done.invoke.getPresetTemplates")
    /\ raised' = FALSE
    /\ UNCHANGED <<state, loaderCalls>>

\* handled at the root in every state; lays out the output editor and is
\* not recorded in lastEvent
Resize ==
    /\ resize(ctx, PlainEvent("Resize")) = Ok(ctx)
    /\ UNCHANGED vars

\* The machine driven with the payloads of p: the surfaces that attach, the
\* values typed, the names of the tabs selected, edited and removed, the absent
\* tabs selected, the preset templates and options chosen, the names and
\* contents submitted, and the most calls of presets.getTemplates.
NextWith(p) ==
    \/ EditorLoaded(p.surfaces)
    \/ UpdateInput(p.values)
    \/ SelectInputTab(p.tabs, p.absent)
    \/ SelectOutputTab(p.absent)
    \/ SelectPresetTemplate(p.templates)
    \/ OpenOptions(p.calls)
    \/ OpenMonacoSettings(p.calls)
    \/ AddFile(p.calls)
    \/ EditFile(p.tabs, p.calls)
    \/ RemoveFile(p.tabs)
    \/ UpdatePreviewOptions(p.options)
    \/ ResetPreviewOptions
    \/ SaveOptions(p.options)
    \/ CloseOptions
    \/ CloseModal
    \/ SubmitFileModal(p.names, p.contents)
    \/ PresetTemplatesDone
    \/ Resize

GhostTab == Tab(GhostYaml, DefaultInput, 0, NoPreset)

AllNames == {ApiDocYaml, TemplateHbs, PrettierrcJson, OtherJson, OtherYaml, ExtraHbs, NotesTxt}

\* a session that adds, renames and removes tabs
TabPayloads ==
    [surfaces |-> {"input", "output"},
     values |-> {DefaultInput},
     tabs |-> AllNames,
     absent |-> {},
     templates |-> {1},
     options |-> {defaultOptionValues},
     names |-> {ApiDocYaml, NotesTxt},
     contents |-> {},
     calls |-> MaxLoaderCalls]

Next == NextWith(TabPayloads)

Spec == Init /\ [][Next]_vars

\* a session that edits the document and the options
OutputPayloads ==
    [surfaces |-> {"input", "output"},
     values |-> {IndexDoc, BadYaml, BadJson},
     tabs |-> {PrettierrcJson},
     absent |-> {},
     templates |-> {2},
     options |-> {defaultOptionValues, groupedOptionValues},
     names |-> {NotesTxt},
     contents |-> {},
     calls |-> MaxLoaderCalls]

SpecOutput == Init /\ [][NextWith(OutputPayloads)]_vars

\* a session that renames tabs
RenamePayloads ==
    [surfaces |-> {"input", "output"},
     values |-> {IndexDoc},
     tabs |-> {PrettierrcJson, OtherJson},
     absent |-> {},
     templates |-> {1},
     options |-> {defaultOptionValues},
     names |-> {OtherJson, OtherYaml},
     contents |-> {EmptyContent},
     calls |-> RenameLoaderCalls]

SpecRename == Init /\ [][NextWith(RenamePayloads)]_vars

\* a session that moves the roles between tabs and selects a tab that is gone
RolesPayloads ==
    [surfaces |-> {"input", "output"},
     values |-> {DefaultInput},
     tabs |-> {PrettierrcJson, OtherJson, TemplateHbs},
     absent |-> {GhostTab},
     templates |-> {1},
     options |-> {defaultOptionValues},
     names |-> {OtherJson, NotesTxt, PrettierJson},
     contents |-> {DefaultInput},
     calls |-> MaxLoaderCalls]

SpecRoles == Init /\ [][NextWith(RolesPayloads)]_vars

\* a session that submits two file forms, of tabs of different roles
SubmitPayloads ==
    [surfaces |-> {"input", "output"},
     values |-> {DefaultInput},
     tabs |-> {PrettierrcJson, TemplateHbs},
     absent |-> {},
     templates |-> {1},
     options |-> {defaultOptionValues},
     names |-> {OtherJson, NotesTxt},
     contents |-> {},
     calls |-> RenameLoaderCalls]

SpecSubmit == Init /\ [][NextWith(SubmitPayloads)]_vars

\* a session that empties the document and removes the template
EmptyPayloads ==
    [surfaces |-> {"input", "output"},
     values |-> {EmptyContent},
     tabs |-> {ApiDocYaml, TemplateHbs},
     absent |-> {},
     templates |-> {1},
     options |-> {defaultOptionValues},
     names |-> {NotesTxt},
     contents |-> {IndexDoc},
     calls |-> MaxLoaderCalls]

SpecEmpty == Init /\ [][NextWith(EmptyPayloads)]_vars

\* a session that edits the draft options and visits the dialogs
DraftPayloads ==
    [surfaces |-> {"input", "output"},
     values |-> {DefaultInput},
     tabs |-> {PrettierrcJson},
     absent |-> {},
     templates |-> {1},
     options |-> {defaultOptionValues, groupedOptionValues},
     names |-> {NotesTxt},
     contents |-> {},
     calls |-> MaxLoaderCalls]

SpecDraft == Init /\ [][NextWith(DraftPayloads)]_vars

----------------------------------------------------------------------------
(* Claims *)

\* the three role pointers of a context: 1 document, 2 template, 3 prettier config
pointer(c, role) ==
    CASE role = 1 -> c.selectedOpenApiFileName
      [] role = 2 -> c.selectedTemplateName
      [] OTHER -> c.selectedPrettierConfig

Roles == 1..3

\* the content of the tab selectedOpenApiFileName names, "" without one
documentContent(c) ==
    LET found == findIndexByName(c.inputList, c.selectedOpenApiFileName)
    IN IF found = -1 THEN EmptyContent ELSE At(c.inputList, found).content

\* a non-empty document that is invalid JSON (when it begins with "{") or
\* invalid YAML (otherwise)
Unparsable(input) ==
    /\ input # EmptyContent
    /\ IF startsWithBrace(input) THEN jsonInvalid(input) ELSE yamlThrows(input)

\* a non-empty document that parses to a value
Parsable(input) ==
    /\ input # EmptyContent
    /\ IF startsWithBrace(input) THEN ~jsonInvalid(input)
       ELSE ~yamlThrows(input) /\ ~yamlNull(input)

contentsOf(list) == [k \in 1..Len(list) |-> list[k].content]
namesOf(list) == [k \in 1..Len(list) |-> list[k].name]

\* the step handled the event of this type, which did not raise
Handled(type) == lastEvent'.type = type /\ ~raised'

\* C1: after any sequence of create, edit and remove events every tab of
\* inputList has index equal to its position.
C1_ReindexInvariant ==
    \A k \in 1..Len(ctx.inputList) : ctx.inputList[k].index = k - 1

ActiveInputResolves(c) ==
    Len(c.inputList) > 0 =>
        /\ 0 <= c.activeInputIndex
        /\ c.activeInputIndex < Len(c.inputList)
        /\ At(c.inputList, c.activeInputIndex).name = c.activeInputTab

\* C2: with a non-empty inputList the active index is in range and names the
\* active tab, after every event; a Remove file of the active tab makes the
\* active index clamp(removedIndex, 0, length - 1).
C2_ActiveInputInvariant ==
    [][/\ ActiveInputResolves(ctx')
       /\ (Handled("Remove file") /\ ctx.activeInputIndex = lastEvent'.tab.index
             /\ Len(ctx'.inputList) > 0)
          => ctx'.activeInputIndex =
                limit(lastEvent'.tab.index, 0, Len(ctx'.inputList) - 1)]_vars

RolePointerResolves(c, role) ==
    \/ pointer(c, role) = EmptyStr
    \/ /\ \E k \in 1..Len(c.inputList) : c.inputList[k].name = pointer(c, role)
       /\ isValidName(role, pointer(c, role))

\* C3: each role pointer is empty or names a tab of inputList whose name
\* satisfies the role's predicate.
C3_RolePointerInvariant == \A role \in Roles : RolePointerResolves(ctx, role)

\* the pointer a role resolves to over a list: its first matching tab, or empty
firstOfRole(list, role) ==
    IF findIndexByRole(list, role) = -1 THEN EmptyStr
    ELSE At(list, findIndexByRole(list, role)).name

\* C4: a Remove file of the tab that holds a role leaves the role's pointer on
\* the first remaining tab matching the role, or empty when none matches.
C4_RoleResolutionOnRemoval ==
    [][Handled("Remove file") =>
        \A role \in Roles :
            pointer(ctx, role) = lastEvent'.tab.name
                => pointer(ctx', role) = firstOfRole(ctx'.inputList, role)]_vars

\* C5: the names of inputList are pairwise distinct (a Submit file modal with
\* the name of another tab is rejected).
C5_TabNamesUnique ==
    \A j, k \in 1..Len(ctx.inputList) :
        j # k => ctx.inputList[j].name # ctx.inputList[k].name

\* the document a regeneration reads when the event of the step is one that
\* types into the selected document's tab, saves options or selects a preset
TypesIntoDocument ==
    /\ lastEvent'.type = "Update input"
    /\ state = "Playing"
    /\ At(ctx.inputList, ctx.activeInputIndex) # undefined
    /\ findIndexByName(ctx.inputList, ctx.selectedOpenApiFileName) = ctx.activeInputIndex

RegeneratesDocument ==
    \/ TypesIntoDocument
    \/ lastEvent'.type = "Save options" /\ state = "Editing options"
    \/ lastEvent'.type = "Select preset template" /\ state = "Playing"

regeneratedDocument ==
    IF lastEvent'.type = "Update input" THEN lastEvent'.value ELSE documentContent(ctx)

OutputUnchanged ==
    /\ ctx'.outputList = ctx.outputList
    /\ ctx'.activeOutputTab = ctx.activeOutputTab
    /\ ctx'.activeOutputIndex = ctx.activeOutputIndex

\* C6: a regeneration whose selected document cannot be parsed completes
\* without raising and leaves outputList, activeOutputTab and
\* activeOutputIndex as they were.
C6_MalformedInputIdempotence ==
    [][(RegeneratesDocument /\ Unparsable(regeneratedDocument))
          => ~raised' /\ OutputUnchanged]_vars

\* index.ts, common.ts if a schema is shared, then one artifact per group in
\* discovery order
groupedNames(doc) ==
    <<<<"index", "ts">>>>
    \o (IF doc.shared THEN <<<<"common", "ts">>>> ELSE <<>>)
    \o [k \in 1..Len(doc.groups) |-> <<doc.groups[k], "ts">>]

\* C7: a regeneration under a group-by-file strategy makes outputList exactly
\* [index.ts, common.ts?, g1.ts, ..., gn.ts] for the groups in discovery order,
\* artifact k with index k, pairwise distinct, the first one active.
C7_GroupedOutputOrdering ==
    [][(/\ RegeneratesDocument
        /\ ~raised'
        /\ includesFile(ctx'.options.groupStrategy)
        /\ ctx'.outputList # ctx.outputList)
          => /\ namesOf(ctx'.outputList) = groupedNames(openApiDocOf(regeneratedDocument))
             /\ \A k \in 1..Len(ctx'.outputList) : ctx'.outputList[k].index = k - 1
             /\ \A j, k \in 1..Len(ctx'.outputList) :
                    j # k => ctx'.outputList[j].name # ctx'.outputList[k].name
             /\ ctx'.activeOutputIndex = 0
             /\ ctx'.activeOutputTab = ctx'.outputList[1].name]_vars

\* the step submits the form opened on the selected document's tab with a new
\* document name, not yet in the list, and the same parsable content
RenamesDocument ==
    /\ lastEvent'.type = "Submit file modal"
    /\ state = "Editing file tab"
    /\ ctx.fileForm.name = ctx.selectedOpenApiFileName
    /\ findIndexByName(ctx.inputList, ctx.selectedOpenApiFileName) = ctx.fileForm.index
    /\ At(ctx.inputList, ctx.fileForm.index) = ctx.fileForm
    /\ lastEvent'.tab.name # ctx.fileForm.name
    /\ isValidDocumentName(lastEvent'.tab.name)
    /\ findIndexByName(ctx.inputList, lastEvent'.tab.name) = -1
    /\ lastEvent'.tab.content = ctx.fileForm.content
    /\ Parsable(lastEvent'.tab.content)

\* C8: renaming the selected document's tab to a new document name with the
\* same valid content makes selectedOpenApiFileName the new name, the tab the
\* active input tab, and leaves the content of outputList as it was.
C8_RenameScenario ==
    [][RenamesDocument =>
        /\ ~raised'
        /\ ctx'.selectedOpenApiFileName = lastEvent'.tab.name
        /\ ctx'.activeInputTab = lastEvent'.tab.name
        /\ At(ctx'.inputList, ctx'.activeInputIndex) = lastEvent'.tab
        /\ contentsOf(ctx'.outputList) = contentsOf(ctx.outputList)]_vars

\* C9: in every state inside ready both editor surfaces have attached.
C9_LoadingGate ==
    state # "loading" => ctx.inputEditor # "null" /\ ctx.outputEditor # "null"

\* C10: Close options leads to Playing with previewOptions equal to options,
\* options as it was, and outputList as it was.
C10_CloseOptionsDiscardsDraft ==
    [][(lastEvent'.type = "Close options" /\ state = "Editing options")
          => /\ state' = "Playing"
             /\ ctx'.previewOptions = ctx'.options
             /\ ctx'.options = ctx.options
             /\ ctx'.outputList = ctx.outputList]_vars

\* the regeneration pipeline run on the tabs the role pointers of c select
regenerated(c) == updateOutput(c, PlainEvent("regenerate"))

pipelineOutput(c) == regenerated(c).ctx.outputList

\* C11: a Save options with payload o in Editing options does not raise, sets
\* options and previewOptions to o, leads to Playing, and leaves in outputList
\* the pipeline result for o.
C11_SaveOptionsCommits ==
    [][(lastEvent'.type = "Save options" /\ state = "Editing options")
          => /\ ~raised'
             /\ state' = "Playing"
             /\ ctx'.options = lastEvent'.options
             /\ ctx'.previewOptions = lastEvent'.options
             /\ ctx'.outputList = pipelineOutput(ctx')]_vars

\* the fields a file form must leave alone
Registry(c) ==
    <<c.inputList, c.activeInputTab, c.activeInputIndex, c.selectedOpenApiFileName,
      c.selectedTemplateName, c.selectedPrettierConfig, c.options, c.outputList>>

\* C12: opening a file form and closing it with Close modal returns to Playing
\* with inputList, the active input tab and index, the three role pointers,
\* options and outputList as they were when the form was opened.
C12_CloseModalMutatesNothing ==
    [][/\ lastEvent'.type \in {"Add file", "Edit file"} => Registry(ctx') = Registry(ctx)
       /\ (lastEvent'.type = "Close modal" /\ state \in {"Editing file tab", "Creating file tab"})
             => state' = "Playing" /\ Registry(ctx') = Registry(ctx)]_vars

\* a file form was opened and closed: the one modal visit of the session ended
\* with Close modal and left its tab in fileForm
C12_Witness ==
    /\ state = "Playing"
    /\ lastEvent.type = "Close modal"
    /\ loaderCalls = 2
    /\ ctx.fileForm # initialContext.fileForm

\* C13: over a session presets.getTemplates is invoked at most once, and
\* presetTemplates, once populated, is not assigned again.
C13_SingleCatalogLoad ==
    [][/\ loaderCalls' <= 1
       /\ ctx.presetTemplates # NoTemplates
             => lastEvent'.type # "done.invoke.getPresetTemplates"]_vars

RolePointers(c) == <<c.selectedOpenApiFileName, c.selectedTemplateName, c.selectedPrettierConfig>>

\* C14: a Select input tab or Select output tab of a name that is not in its
\* list raises nothing and leaves the active name and index, the role pointers
\* and outputList as they were.
C14_SelectAbsentTabIsNoOp ==
    [][/\ (/\ lastEvent'.type = "Select input tab"
           /\ findIndexByName(ctx.inputList, lastEvent'.tab.name) = -1)
             => /\ ~raised'
                /\ ctx'.activeInputTab = ctx.activeInputTab
                /\ ctx'.activeInputIndex = ctx.activeInputIndex
                /\ RolePointers(ctx') = RolePointers(ctx)
                /\ ctx'.outputList = ctx.outputList
       /\ (/\ lastEvent'.type = "Select output tab"
           /\ findIndexByName(ctx.outputList, lastEvent'.tab.name) = -1)
             => /\ ~raised'
                /\ ctx'.activeOutputTab = ctx.activeOutputTab
                /\ ctx'.activeOutputIndex = ctx.activeOutputIndex
                /\ RolePointers(ctx') = RolePointers(ctx)
                /\ ctx'.outputList = ctx.outputList]_vars

\* the step ran updateOutput: the event has it in the actions of the
\* transition it selected
Regenerates ==
    \/ lastEvent'.type \in {"Update input", "Select preset template", "Remove file",
                            "Save options", "Submit file modal"}
    \/ /\ lastEvent'.type = "Select input tab"
       /\ \/ isNextTabAnotherOpenApiDoc(ctx, lastEvent') = "true"
          \/ isNextTabAnotherTemplate(ctx, lastEvent') = "true"
          \/ isNextTabAnotherPrettierConfig(ctx, lastEvent') = "true"

\* context c with the output the step started from
priorOutputIn(c) ==
    [c EXCEPT !.outputList = ctx.outputList,
              !.activeOutputTab = ctx.activeOutputTab,
              !.activeOutputIndex = ctx.activeOutputIndex,
              !.templateContext = ctx.templateContext]

\* the context updateOutput ran on in the step: Update input is the one event
\* with an action after it, which moves the document and template pointers
atRegeneration ==
    IF lastEvent'.type = "Update input"
    THEN [priorOutputIn(ctx') EXCEPT !.selectedOpenApiFileName = ctx.selectedOpenApiFileName,
                                     !.selectedTemplateName = ctx.selectedTemplateName]
    ELSE priorOutputIn(ctx')

\* another session that agrees with c on the tabs, the role pointers, the
\* committed options and the preset templates, and on nothing else
freshSession(c) ==
    [initialContext EXCEPT !.inputList = c.inputList,
                           !.selectedOpenApiFileName = c.selectedOpenApiFileName,
                           !.selectedTemplateName = c.selectedTemplateName,
                           !.selectedPrettierConfig = c.selectedPrettierConfig,
                           !.options = c.options,
                           !.presetTemplates = c.presetTemplates]

\* the pipeline run on c reaches the rendering
Renders(c) == ~regenerated(c).thrown /\ regenerated(c).ctx # c

\* C15: the outputList a regeneration produces is the one any other session
\* with the same document, template, prettier config, options and preset
\* templates produces, whatever the event, the active tab, the prior output
\* and the editors.
C15_PipelineDeterminism ==
    [][(Regenerates /\ ~raised' /\ Renders(freshSession(atRegeneration)))
          => ctx'.outputList = pipelineOutput(freshSession(atRegeneration))]_vars

\* C16: whatever event triggers it, a regeneration reads as document the
\* content of the tab selectedOpenApiFileName names: its outputList is the one
\* the pipeline gives, from the output the step started with, for the selected
\* tabs.
C16_RegenerationReadsSelectedDocument ==
    [][(Regenerates /\ ~raised')
          => ctx'.outputList = pipelineOutput(atRegeneration)]_vars

\* the pointer of role names a tab of the role that the step does not overwrite
HeldByAnotherTab(role) ==
    LET holder == findIndexByName(ctx.inputList, pointer(ctx, role))
    IN /\ holder # -1
       /\ isValidName(role, pointer(ctx, role))
       /\ state = "Editing file tab" => holder # ctx.fileForm.index

\* C17: a Submit file modal of a tab whose name does not match a role leaves
\* the pointer of that role unchanged when it names an existing tab of the role.
C17_SubmitDoesNotStealRoles ==
    [][lastEvent'.type = "Submit file modal"
          => \A role \in Roles :
                (~isValidName(role, lastEvent'.tab.name) /\ HeldByAnotherTab(role))
                   => pointer(ctx', role) = pointer(ctx, role)]_vars

\* C18: a Remove file of a tab that does not hold a role leaves the pointer of
\* that role, which names a tab of the list, unchanged.
C18_RemovalKeepsOtherRoles ==
    [][lastEvent'.type = "Remove file"
          => \A role \in Roles :
                (/\ pointer(ctx, role) # lastEvent'.tab.name
                 /\ findIndexByName(ctx.inputList, pointer(ctx, role)) # -1
                 /\ isValidName(role, pointer(ctx, role)))
                   => pointer(ctx', role) = pointer(ctx, role)]_vars

\* the step is the first keystroke into the active tab, whose content was empty
FirstKeystroke ==
    /\ lastEvent'.type = "Update input"
    /\ ~raised'
    /\ wasInputEmpty(ctx, lastEvent') = "true"

\* C19: the first keystroke into an empty active tab makes the pointer of each
\* role the tab's name matches the tab's name, and leaves the other pointers
\* unchanged.
C19_FirstKeystrokeClaimsRole ==
    [][FirstKeystroke
          => \A role \in Roles :
                pointer(ctx', role) =
                    IF isValidName(role, ctx.activeInputTab) /\ ActiveInputResolves(ctx)
                    THEN ctx.activeInputTab
                    ELSE pointer(ctx, role)]_vars

\* C20: when an event that regenerates has been handled, outputList is the
\* pipeline's result, from the output the step started with, for the role
\* pointers and contents the event leaves.
C20_RegenerationFollowsRoleResolution ==
    [][(Regenerates /\ ~raised')
          => ctx'.outputList = pipelineOutput(priorOutputIn(ctx'))]_vars

\* C21: selecting an existing input tab makes the pointer of each role the
\* tab's name matches the tab's name and leaves every other pointer unchanged;
\* selecting a tab whose name matches no role changes no pointer and does not
\* regenerate, so the output stays as it was.
C21_ManualSelectionRoleRule ==
    [][(/\ lastEvent'.type = "Select input tab"
        /\ findIndexByName(ctx.inputList, lastEvent'.tab.name) # -1)
          => /\ \A role \in Roles :
                   pointer(ctx', role) =
                       IF isValidName(role, lastEvent'.tab.name)
                       THEN lastEvent'.tab.name
                       ELSE pointer(ctx, role)
             /\ (\A role \in Roles : ~isValidName(role, lastEvent'.tab.name))
                   => /\ ~Regenerates
                      /\ ctx'.outputList = ctx.outputList
                      /\ ctx'.activeOutputTab = ctx.activeOutputTab
                      /\ ctx'.activeOutputIndex = ctx.activeOutputIndex]_vars

\* the template text updateOutput resolves in c: the preset text registered
\* under selectedTemplateName, else the content of the tab of that name, else ""
templateStringOf(c) ==
    LET templateIndex == findIndexByName(c.inputList, c.selectedTemplateName)
        presetId == presetTemplateIdOf(c.selectedTemplateName)
    IN IF presetId \in DOMAIN c.presetTemplates THEN c.presetTemplates[presetId]
       ELSE IF templateIndex # -1 THEN At(c.inputList, templateIndex).content
       ELSE EmptyContent

\* C22: a regeneration that finds the selected document's content empty, or
\* the resolved template text empty, leaves outputList, activeOutputTab and
\* activeOutputIndex as they were.
C22_EmptyInputsChangeNothing ==
    [][(/\ Regenerates
        /\ \/ documentContent(atRegeneration) = EmptyContent
           \/ templateStringOf(atRegeneration) = EmptyContent)
          => /\ ctx'.outputList = ctx.outputList
             /\ ctx'.activeOutputTab = ctx.activeOutputTab
             /\ ctx'.activeOutputIndex = ctx.activeOutputIndex]_vars

\* C23: in Editing options, Update preview options and Reset preview options
\* keep the machine in Editing options and leave the committed options, the
\* input tabs, the role pointers and the output as they were; Update preview
\* options stores the event's options in previewOptions, and Reset preview
\* options sets previewOptions to the default option values and adds exactly 1
\* to optionsFormKey.
C23_DraftEditsStayInDraft ==
    [][(/\ state = "Editing options"
        /\ lastEvent'.type \in {"Update preview options", "Reset preview options"})
          => /\ state' = "Editing options"
             /\ ~raised'
             /\ Registry(ctx') = Registry(ctx)
             /\ lastEvent'.type = "Update preview options"
                   => /\ ctx'.previewOptions = lastEvent'.options
                      /\ ctx'.optionsFormKey = ctx.optionsFormKey
             /\ lastEvent'.type = "Reset preview options"
                   => /\ ctx'.previewOptions = defaultOptionValues
                      /\ ctx'.optionsFormKey = ctx.optionsFormKey + 1]_vars

\* the draft was reset and then edited away from the committed options
C23_Witness ==
    /\ state = "Editing options"
    /\ lastEvent.type = "Update preview options"
    /\ ctx.optionsFormKey = 1
    /\ ctx.previewOptions = groupedOptionValues
    /\ ctx.options = defaultOptionValues

\* C24: in every reachable state outputList is not empty, activeOutputIndex is
\* an index of outputList, and the tab at that index is the one activeOutputTab
\* names.
C24_ActiveOutputInvariant ==
    /\ Len(ctx.outputList) >= 1
    /\ 0 <= ctx.activeOutputIndex
    /\ ctx.activeOutputIndex < Len(ctx.outputList)
    /\ At(ctx.outputList, ctx.activeOutputIndex).name = ctx.activeOutputTab

\* C25: a preset-catalog load that is pending stays pending through every
\* other event, the ones that leave Playing included, until its completion is
\* delivered; the completion stores the catalog in presetTemplates and changes
\* no other context field and not the state.
C25_CatalogLoadNeverCancelled ==
    [][/\ (invoked /\ lastEvent'.type # "done.invoke.getPresetTemplates") => invoked'
       /\ (invoked /\ lastEvent'.type = "done.invoke.getPresetTemplates")
             => /\ ctx' = [ctx EXCEPT !.presetTemplates = LoadedTemplates]
                /\ state' = state]_vars

\* the dialogs of ready
ModalStates ==
    {"Editing options", "Editing monaco settings", "Editing file tab", "Creating file tab"}

\* one of the events that close a dialog is handled and the machine is in Playing
ClosesDialog ==
    /\ \/ CloseOptions
       \/ CloseModal
       \/ SaveOptions(DraftPayloads.options)
       \/ SubmitFileModal(DraftPayloads.names, DraftPayloads.contents)
    /\ state' = "Playing"

\* C26: once the machine has left loading it never is in loading again, and in
\* each dialog (Editing options, Editing monaco settings, Editing file tab,
\* Creating file tab) at least one of Close options, Close modal, Save options
\* and Submit file modal is enabled and leads to Playing.
C26_NoWayBackNoDeadEnd ==
    /\ [][state # "loading" => state' # "loading"]_vars
    /\ [](state \in ModalStates => ENABLED ClosesDialog)

\* a dialog in which Save options was sent and raised, so that it did not
\* lead to Playing
C26_Witness ==
    /\ state = "Editing options"
    /\ lastEvent.type = "Save options"
    /\ raised

====
